---- MODULE Spec2Model ----
(***************************************************************************)
(* A model of the toy exchange: the OrderBook of exchange/book.py and the  *)
(* MatchingEngine of exchange/matcher.py.  A Python dict is a function     *)
(* whose domain is its key set, a deque is a sequence (front = index 1),   *)
(* and a Python value is tagged with its type, so that None, a list, a     *)
(* tuple, a dict and an object are told apart.                             *)
(***************************************************************************)
EXTENDS Integers, Sequences, FiniteSets, TLC

\* ---------------------------------------------------------------- bounds
MaxOrders == 4
MaxPrice == 2
MaxQty == 2

\* ---------------------------------------------------------------- inputs
Prices == 1..MaxPrice
Qtys == 1..MaxQty

\* What the driver can pass for (side, price, qty).  Python enforces neither the
\* side enum nor qty > 0, so besides the well-formed requests there are requests
\* with a zero qty and one with a side that is neither "BUY" nor "SELL" ("HOLD"
\* stands for any such string; its price and qty are never read).
WellFormed == {<<side, price, qty>> : side \in {"BUY", "SELL"}, price \in Prices, qty \in Qtys}
ZeroQty == {<<side, price, 0>> : side \in {"BUY", "SELL"}, price \in Prices}
BadSide == {<<"HOLD", 1, 1>>}
Requests == WellFormed \cup ZeroQty \cup BadSide

\* The clock is an external collaborator: the n-th order is stamped by a clock
\* that runs forward, or by one that runs backward (later orders carry earlier
\* timestamps).
Clocks == {"forward", "backward"}
Now(c, n) == IF c = "forward" THEN n ELSE MaxOrders + 1 - n

\* ---------------------------------------------------------------- values
None == [tag |-> "None", val |-> <<>>]
List(s) == [tag |-> "list", val |-> s]
Tuple(t) == [tag |-> "tuple", val |-> t]
Dict(d) == [tag |-> "dict", val |-> d]
Obj(r) == [tag |-> "object", val |-> r]

Order(id, side, price, qty, ts) ==
    [order_id |-> id, side |-> side, price |-> price, qty |-> qty, timestamp |-> ts]

Trade(price, qty, taker, maker) ==
    [price |-> price, qty |-> qty, taker_order_id |-> taker, maker_order_id |-> maker]

EmptyDict == [k \in {} |-> <<>>]

\* d[k] = v, creating the key when absent
DictSet(d, k, v) == [x \in (DOMAIN d) \cup {k} |-> IF x = k THEN v ELSE d[x]]

\* del d[k]
DictDel(d, k) == [x \in (DOMAIN d) \ {k} |-> d[x]]

max(S) == CHOOSE x \in S : \A y \in S : y <= x
min(S) == CHOOSE x \in S : \A y \in S : x <= y

RECURSIVE SumQty(_)
SumQty(level) ==
    IF level = <<>> THEN 0 ELSE Head(level).qty + SumQty(Tail(level))

\* ---------------------------------------------------------------- OrderBook
NewBook == [bids |-> EmptyDict, asks |-> EmptyDict]

LevelAppend_Replace(side, order) == DictSet(side, order.price, <<order>>)

LevelAppend_Front(side, order) ==
    IF order.price \in DOMAIN side
    THEN DictSet(side, order.price, <<order>> \o side[order.price])
    ELSE DictSet(side, order.price, <<order>>)

\* deque.append on an existing level, deque([order]) on KeyError
LevelAppend(side, order) ==
    IF order.price \in DOMAIN side
    THEN DictSet(side, order.price, Append(side[order.price], order))
    ELSE DictSet(side, order.price, <<order>>)

add_order_Swapped(book, order) ==
    IF order.side = "BUY"
    THEN [book EXCEPT !.asks = LevelAppend(book.asks, order)]
    ELSE IF order.side = "SELL"
    THEN [book EXCEPT !.bids = LevelAppend(book.bids, order)]
    ELSE book

add_order(book, order) ==
    IF order.side = "BUY"
    THEN [book EXCEPT !.bids = LevelAppend(book.bids, order)]
    ELSE IF order.side = "SELL"
    THEN [book EXCEPT !.asks = LevelAppend(book.asks, order)]
    ELSE book

RawOrder(o) ==
    [order_id |-> o.order_id, side |-> o.side, price |-> o.price,
     qty |-> o.qty, timestamp |-> o.timestamp]

RawLevels(side) ==
    [price \in DOMAIN side |->
        [i \in 1..Len(side[price]) |-> RawOrder(side[price][i])]]

get_raw_bids(book) == Dict(RawLevels(book.bids))

get_raw_asks(book) == Dict(RawLevels(book.asks))

get_bids_Count(book) == Dict([price \in DOMAIN book.bids |-> Len(book.bids[price])])

get_bids(book) == Dict([price \in DOMAIN book.bids |-> SumQty(book.bids[price])])

get_asks(book) == Dict([price \in DOMAIN book.asks |-> SumQty(book.asks[price])])

get_best_bid_Front(book) ==
    LET prices == DOMAIN book.bids IN
    IF Cardinality(prices) = 0
    THEN None
    ELSE LET highest_price == max(prices) IN
         Tuple(<<highest_price, book.bids[highest_price][1].qty>>)

get_best_bid(book) ==
    LET prices == DOMAIN book.bids IN
    IF Cardinality(prices) = 0
    THEN None
    ELSE LET highest_price == max(prices) IN
         Tuple(<<highest_price, SumQty(book.bids[highest_price])>>)

get_best_ask_Highest(book) ==
    LET prices == DOMAIN book.asks IN
    IF Cardinality(prices) = 0
    THEN None
    ELSE LET highest_price == max(prices) IN
         Tuple(<<highest_price, SumQty(book.asks[highest_price])>>)

get_best_ask(book) ==
    LET prices == DOMAIN book.asks IN
    IF Cardinality(prices) = 0
    THEN None
    ELSE LET lowest_price == min(prices) IN
         Tuple(<<lowest_price, SumQty(book.asks[lowest_price])>>)

\* ---------------------------------------------------------------- MatchingEngine
\* An engine state is [book, last_trade]; a call's outcome adds the value returned.
NewEngine(book) == [book |-> book, last_trade |-> None]

Outcome(eng, r) == [book |-> eng.book, last_trade |-> eng.last_trade, ret |-> r]

Front_Earliest(level) ==
    level[CHOOSE i \in 1..Len(level) :
             \A j \in 1..Len(level) :
                 \/ level[i].timestamp < level[j].timestamp
                 \/ (level[i].timestamp = level[j].timestamp /\ i <= j)]

\* best_ask_level[0]: the front of the deque
Front(level) == level[1]

PopFront_Peek(side, price) == side

PopFront_Back(side, price) ==
    LET rest == SubSeq(side[price], 1, Len(side[price]) - 1) IN
    IF Len(rest) = 0 THEN DictDel(side, price) ELSE DictSet(side, price, rest)

PopFront_KeepLevel(side, price) == DictSet(side, price, Tail(side[price]))

\* best_ask_level.popleft(), then del _asks[price] when the level is empty
PopFront(side, price) ==
    LET rest == Tail(side[price]) IN
    IF Len(rest) = 0 THEN DictDel(side, price) ELSE DictSet(side, price, rest)

BuyCrosses_Strict(order, best_ask_price) == order.price > best_ask_price

BuyCrosses(order, best_ask_price) == order.price >= best_ask_price

SellCrosses_Reversed(order, best_bid_price) == order.price >= best_bid_price

SellCrosses(order, best_bid_price) == order.price <= best_bid_price

BuyQtyMatches_AtMost(order, best_ask_order) == order.qty <= best_ask_order.qty

BuyQtyMatches(order, best_ask_order) == order.qty = best_ask_order.qty

SellQtyMatches(order, best_bid_order) == order.qty = best_bid_order.qty

BuyTrade(order, best_ask_order) ==
    Trade(best_ask_order.price, order.qty, order.order_id, best_ask_order.order_id)

SellTrade_TakerPrice(order, best_bid_price, best_bid_order) ==
    Trade(order.price, order.qty, order.order_id, best_bid_order.order_id)

SellTrade(order, best_bid_price, best_bid_order) ==
    Trade(best_bid_price, order.qty, order.order_id, best_bid_order.order_id)

SetLastTrade_KeepFirst(eng, trade) ==
    IF eng.last_trade = None THEN Obj(trade) ELSE eng.last_trade

\* self._last_trade = trade
SetLastTrade(eng, trade) == Obj(trade)

\* self.book.add_order(order); return []
Rest(eng, order) ==
    [book |-> add_order(eng.book, order), last_trade |-> eng.last_trade, ret |-> List(<<>>)]

SubmitBuy(eng, order) ==
    LET best_ask == get_best_ask(eng.book) IN
    IF best_ask = None
    THEN Rest(eng, order)
    ELSE LET best_ask_price == best_ask.val[1] IN
         IF BuyCrosses(order, best_ask_price)
         THEN LET best_ask_order == Front(eng.book.asks[best_ask_price]) IN
              IF BuyQtyMatches(order, best_ask_order)
              THEN LET trade == BuyTrade(order, best_ask_order) IN
                   [book |-> [eng.book EXCEPT !.asks = PopFront(@, best_ask_price)],
                    last_trade |-> SetLastTrade(eng, trade),
                    ret |-> List(<<trade>>)]
              ELSE Rest(eng, order)
         ELSE IF order.price < best_ask_price
         THEN Rest(eng, order)
         ELSE Outcome(eng, None)

SubmitSell(eng, order) ==
    LET best_bid == get_best_bid(eng.book) IN
    IF best_bid = None
    THEN Rest(eng, order)
    ELSE LET best_bid_price == best_bid.val[1] IN
         IF SellCrosses(order, best_bid_price)
         THEN LET best_bid_order == Front(eng.book.bids[best_bid_price]) IN
              IF SellQtyMatches(order, best_bid_order)
              THEN LET trade == SellTrade(order, best_bid_price, best_bid_order) IN
                   [book |-> [eng.book EXCEPT !.bids = PopFront(@, best_bid_price)],
                    last_trade |-> SetLastTrade(eng, trade),
                    ret |-> List(<<trade>>)]
              ELSE Rest(eng, order)
         ELSE IF order.price > best_bid_price
         THEN Rest(eng, order)
         ELSE Outcome(eng, None)

submit_order(eng, order) ==
    IF order.side = "BUY"
    THEN SubmitBuy(eng, order)
    ELSE IF order.side = "SELL"
    THEN SubmitSell(eng, order)
    ELSE Outcome(eng, None)

top_of_book(eng) == Dict([bid |-> get_best_bid(eng.book), ask |-> get_best_ask(eng.book)])

last_trade(eng) == eng.last_trade

\* ---------------------------------------------------------------- state
VARIABLES
    clock,      \* the clock that stamps the orders of this run
    engine,     \* the MatchingEngine and the OrderBook it holds
    op,         \* the last call made by the driver
    arg,        \* the order passed to the last submit_order, else None
    ret,        \* the value the last call returned
    pre,        \* the engine as it was before the last call
    submitted,  \* every order handed to submit_order, in order
    executed    \* every trade returned by submit_order, in order

vars == <<clock, engine, op, arg, ret, pre, submitted, executed>>

\* make_engine()
Init ==
    /\ clock \in Clocks
    /\ engine = NewEngine(NewBook)
    /\ op = "make_engine"
    /\ arg = None
    /\ ret = None
    /\ pre = NewEngine(NewBook)
    /\ submitted = <<>>
    /\ executed = <<>>

\* engine.submit_order(Order(order_id=create_id(), ...)): ids are unique
Submit ==
    /\ Len(submitted) < MaxOrders
    /\ \E req \in Requests :
          LET n == Len(submitted) + 1
              order == Order(n, req[1], req[2], req[3], Now(clock, n))
              out == submit_order(engine, order)
          IN /\ UNCHANGED clock
             /\ engine' = [book |-> out.book, last_trade |-> out.last_trade]
             /\ op' = "submit_order"
             /\ arg' = Obj(order)
             /\ ret' = out.ret
             /\ pre' = engine
             /\ submitted' = Append(submitted, order)
             /\ executed' = IF out.ret.tag = "list" THEN executed \o out.ret.val
                            ELSE executed

\* A call of a query method: the value it returns and the engine it leaves.
\* None of the query methods assigns to a field of the book or of the engine.
call_get_raw_bids(eng) == Outcome(eng, get_raw_bids(eng.book))

call_get_raw_asks(eng) == Outcome(eng, get_raw_asks(eng.book))

call_get_bids(eng) == Outcome(eng, get_bids(eng.book))

call_get_asks(eng) == Outcome(eng, get_asks(eng.book))

call_get_best_bid(eng) == Outcome(eng, get_best_bid(eng.book))

call_get_best_ask_Draining(eng) ==
    [book |-> [eng.book EXCEPT !.asks =
                  IF DOMAIN @ = {} THEN @ ELSE DictDel(@, min(DOMAIN @))],
     last_trade |-> eng.last_trade,
     ret |-> get_best_ask(eng.book)]

call_get_best_ask(eng) == Outcome(eng, get_best_ask(eng.book))

call_top_of_book(eng) == Outcome(eng, top_of_book(eng))

call_last_trade(eng) == Outcome(eng, last_trade(eng))

Query(name, out) ==
    /\ op' = name
    /\ arg' = None
    /\ ret' = out.ret
    /\ pre' = engine
    /\ engine' = [book |-> out.book, last_trade |-> out.last_trade]
    /\ UNCHANGED <<clock, submitted, executed>>

GetBestBid == Query("get_best_bid", call_get_best_bid(engine))

GetBestAsk == Query("get_best_ask", call_get_best_ask(engine))

GetBids == Query("get_bids", call_get_bids(engine))

GetAsks == Query("get_asks", call_get_asks(engine))

GetRawBids == Query("get_raw_bids", call_get_raw_bids(engine))

GetRawAsks == Query("get_raw_asks", call_get_raw_asks(engine))

TopOfBook == Query("top_of_book", call_top_of_book(engine))

LastTrade == Query("last_trade", call_last_trade(engine))

Next ==
    \/ Submit
    \/ GetBestBid
    \/ GetBestAsk
    \/ GetBids
    \/ GetAsks
    \/ GetRawBids
    \/ GetRawAsks
    \/ TopOfBook
    \/ LastTrade

Spec == Init /\ [][Next]_vars

\* ---------------------------------------------------------------- vocabulary of the claims
\* The orders resting in one side of the book, whatever level holds them.
Resting(side) == UNION {{side[p][i] : i \in 1..Len(side[p])} : p \in DOMAIN side}

RestingAll(book) == Resting(book.bids) \cup Resting(book.asks)

Opposing(book, s) == IF s = "BUY" THEN book.asks ELSE book.bids

Own(book, s) == IF s = "BUY" THEN book.bids ELSE book.asks

ValidSide(o) == o.side \in {"BUY", "SELL"}

\* the best price among the orders resting opposite to an order of side s
BestOpposingPrice(book, s) ==
    LET ps == {r.price : r \in Resting(Opposing(book, s))} IN
    IF s = "BUY" THEN min(ps) ELSE max(ps)

CrossesBest(book, o) ==
    /\ Resting(Opposing(book, o.side)) # {}
    /\ IF o.side = "BUY" THEN o.price >= BestOpposingPrice(book, o.side)
                         ELSE o.price <= BestOpposingPrice(book, o.side)

\* the front order of the best opposing level
BestOpposingFront(book, s) == Opposing(book, s)[BestOpposingPrice(book, s)][1]

Submitted == op = "submit_order"

Traded == Submitted /\ ret.tag = "list" /\ Len(ret.val) = 1

\* the resting orders the last call took out of the book
Removed == RestingAll(pre.book) \ RestingAll(engine.book)

\* ---------------------------------------------------------------- claims
\* C1: submit_order of a BUY or SELL order returns a list of 0 or 1 trades, and
\* returns 1 trade exactly when the opposing side is non-empty, the order's price
\* crosses the opposing best price, and the front order of the opposing best
\* level has the incoming order's qty.
C1_TradeIffExactCross ==
    (Submitted /\ ValidSide(arg.val)) =>
        /\ ret.tag = "list"
        /\ Len(ret.val) \in {0, 1}
        /\ Len(ret.val) = 1 <=>
              /\ CrossesBest(pre.book, arg.val)
              /\ BestOpposingFront(pre.book, arg.val.side).qty = arg.val.qty

\* a BUY at a price strictly above the lowest ask trades with its front order
C1_Witness ==
    /\ Traded
    /\ arg.val.side = "BUY"
    /\ arg.val.price > BestOpposingPrice(pre.book, "BUY")
    /\ Cardinality(Resting(pre.book.asks)) >= 2

\* C2: a trade carries the maker's price (not the taker's), the qty common to
\* taker and maker, the incoming order's id as taker and the removed resting
\* order's id as maker, for a BUY taker and for a SELL taker.
C2_TradeFields ==
    Traded =>
        /\ Cardinality(Removed) = 1
        /\ \A maker \in Removed :
              /\ ret.val[1].price = maker.price
              /\ ret.val[1].qty = arg.val.qty
              /\ ret.val[1].qty = maker.qty
              /\ ret.val[1].taker_order_id = arg.val.order_id
              /\ ret.val[1].maker_order_id = maker.order_id

\* a SELL priced strictly below the bid it trades with
C2_Witness ==
    /\ Traded
    /\ arg.val.side = "SELL"
    /\ \E maker \in Removed : arg.val.price < maker.price /\ ret.val[1].price = maker.price

\* C3: an order that crosses the best opposing price but whose qty differs from
\* the front order of that level produces no trade, even when a deeper order of
\* that queue or another crossing level has its qty; it rests at the tail of its
\* own level and the opposing side is unchanged, its front order still in front.
QtyMismatchCross ==
    /\ Submitted
    /\ ValidSide(arg.val)
    /\ CrossesBest(pre.book, arg.val)
    /\ BestOpposingFront(pre.book, arg.val.side).qty # arg.val.qty

C3_NoPartialFill ==
    QtyMismatchCross =>
        LET o == arg.val
            before == Own(pre.book, o.side)
            after == Own(engine.book, o.side)
        IN /\ ret = List(<<>>)
           /\ Opposing(engine.book, o.side) = Opposing(pre.book, o.side)
           /\ BestOpposingFront(engine.book, o.side) = BestOpposingFront(pre.book, o.side)
           /\ DOMAIN after = DOMAIN before \cup {o.price}
           /\ after[o.price] =
                 (IF o.price \in DOMAIN before THEN before[o.price] ELSE <<>>) \o <<o>>
           /\ \A p \in DOMAIN before \ {o.price} : after[p] = before[p]

\* the order's qty is offered deeper in the best queue, behind a front order of
\* another qty
C3_Witness ==
    /\ QtyMismatchCross
    /\ LET level == Opposing(pre.book, arg.val.side)[BestOpposingPrice(pre.book, arg.val.side)]
       IN /\ Len(level) >= 2
          /\ level[2].qty = arg.val.qty
    /\ arg.val \in Resting(Own(engine.book, arg.val.side))

\* C4: time priority.  Every level is queued in order of arrival (order ids are
\* handed out in order of submission), and no order leaves the book while an
\* order that arrived earlier at the same side and price is still resting: of O1
\* then O2 at one side and price, an exact-quantity cross consumes O1 first.
ArrivalOrdered(side) ==
    \A p \in DOMAIN side : \A i, j \in 1..Len(side[p]) :
        i < j => side[p][i].order_id < side[p][j].order_id

SameLevel(a, b) == a.side = b.side /\ a.price = b.price

C4_TimePriority ==
    /\ ArrivalOrdered(engine.book.bids)
    /\ ArrivalOrdered(engine.book.asks)
    /\ \A m \in Removed : \A r \in RestingAll(engine.book) :
          SameLevel(m, r) => m.order_id < r.order_id
    /\ \A k \in 1..Len(executed) :
          LET m == submitted[executed[k].maker_order_id] IN
          \A r \in RestingAll(engine.book) : SameLevel(m, r) => m.order_id < r.order_id

\* O1 and O2 rested together at one level; two takers consumed O1, then O2
C4_Witness ==
    /\ Len(executed) = 2
    /\ LET o1 == submitted[executed[1].maker_order_id]
           o2 == submitted[executed[2].maker_order_id]
       IN /\ SameLevel(o1, o2)
          /\ o1.order_id < o2.order_id
          /\ o2.order_id < executed[1].taker_order_id

\* C5: price priority of the maker.  The maker of a trade was, just before the
\* call, the front order of the best opposing level (lowest ask for a BUY taker,
\* highest bid for a SELL taker): no order on the maker's side was priced better.
C5_PricePriority ==
    Traded =>
        LET s == arg.val.side
            opp == Resting(Opposing(pre.book, s))
        IN /\ Removed # {}
           /\ \A maker \in Removed :
                 /\ maker \in opp
                 /\ maker = BestOpposingFront(pre.book, s)
                 /\ \A r \in opp : IF s = "BUY" THEN maker.price <= r.price
                                                ELSE maker.price >= r.price

\* the taker's price crossed two ask levels and the trade took the lower one
C5_Witness ==
    /\ Traded
    /\ arg.val.side = "BUY"
    /\ \E r \in Resting(pre.book.asks) :
          /\ r.price > BestOpposingPrice(pre.book, "BUY")
          /\ r.price <= arg.val.price
          /\ r.qty = arg.val.qty

\* C6: every price level in either mapping holds a non-empty queue; once the
\* sole order of a level is filled, its price is neither a key of the aggregated
\* view of that side nor the price the best-price query reports.
NoEmptyLevel(side) == \A p \in DOMAIN side : Len(side[p]) >= 1

SoleOrderFilled(maker) ==
    /\ Traded
    /\ maker \in Removed
    /\ Len(Opposing(pre.book, arg.val.side)[maker.price]) = 1

C6_NoEmptyLevel ==
    /\ NoEmptyLevel(engine.book.bids)
    /\ NoEmptyLevel(engine.book.asks)
    /\ \A maker \in Removed :
          SoleOrderFilled(maker) =>
             LET buy == arg.val.side = "BUY"
                 levels == IF buy THEN get_asks(engine.book) ELSE get_bids(engine.book)
                 best == IF buy THEN get_best_ask(engine.book) ELSE get_best_bid(engine.book)
             IN /\ maker.price \notin DOMAIN levels.val
                /\ best = None \/ best.val[1] # maker.price

\* the sole bid of a level is filled while another bid level stays
C6_Witness ==
    /\ Traded
    /\ arg.val.side = "SELL"
    /\ \E maker \in Removed : SoleOrderFilled(maker)
    /\ engine.book.bids # EmptyDict

\* C7: get_best_bid returns None exactly when no BUY order rests, else the
\* highest price among the resting BUY orders with the summed qty of the resting
\* BUY orders at that price; get_best_ask likewise with the lowest SELL price;
\* top_of_book returns that pair.
RECURSIVE TotalQty(_)
TotalQty(S) ==
    IF S = {} THEN 0
    ELSE LET o == CHOOSE x \in S : TRUE IN o.qty + TotalQty(S \ {o})

RestingOf(book, s) == {r \in RestingAll(book) : r.side = s}

BestBidOf(book) ==
    LET buys == RestingOf(book, "BUY") IN
    IF buys = {} THEN None
    ELSE LET p == max({r.price : r \in buys}) IN
         Tuple(<<p, TotalQty({r \in buys : r.price = p})>>)

BestAskOf(book) ==
    LET sells == RestingOf(book, "SELL") IN
    IF sells = {} THEN None
    ELSE LET p == min({r.price : r \in sells}) IN
         Tuple(<<p, TotalQty({r \in sells : r.price = p})>>)

C7_BestPrices ==
    /\ get_best_bid(engine.book) = BestBidOf(engine.book)
    /\ get_best_ask(engine.book) = BestAskOf(engine.book)
    /\ top_of_book(engine) =
          Dict([bid |-> BestBidOf(engine.book), ask |-> BestAskOf(engine.book)])
    /\ op = "get_best_bid" => ret = BestBidOf(engine.book)
    /\ op = "get_best_ask" => ret = BestAskOf(engine.book)
    /\ op = "top_of_book" =>
          ret = Dict([bid |-> BestBidOf(engine.book), ask |-> BestAskOf(engine.book)])

\* top_of_book with two bid levels, two orders at the best one, and an ask
C7_Witness ==
    /\ op = "top_of_book"
    /\ Cardinality(DOMAIN engine.book.bids) = 2
    /\ Len(engine.book.bids[max(DOMAIN engine.book.bids)]) = 2
    /\ ret.val.bid.tag = "tuple"
    /\ ret.val.bid.val[2] > engine.book.bids[max(DOMAIN engine.book.bids)][1].qty
    /\ ret.val.ask.tag = "tuple"

\* C8: an order whose side is neither BUY nor SELL is rejected with an explicit
\* invalid-input signal, and the book and the last trade are left unchanged.
C8_BadSideRejected ==
    (Submitted /\ ~ValidSide(arg.val)) =>
        /\ ret.tag = "error"
        /\ engine = pre

\* C9: last_trade is None until the first trade; afterwards it is the trade
\* returned by the latest submit that traded (earlier trades are overwritten);
\* a submit that returns no trade leaves it unchanged.
LatestTrade == IF executed = <<>> THEN None ELSE Obj(executed[Len(executed)])

C9_LastTrade ==
    /\ last_trade(engine) = LatestTrade
    /\ op = "last_trade" => ret = LatestTrade
    /\ (Submitted /\ ~Traded) => engine.last_trade = pre.last_trade

\* last_trade after a second trade that differs from the first
C9_Witness ==
    /\ op = "last_trade"
    /\ Len(executed) = 2
    /\ executed[1].price # executed[2].price
    /\ ret = Obj(executed[2])

\* C10: every resting order and every trade has qty > 0, and submitting an
\* order with qty <= 0 neither inserts it into the book nor produces a trade.
C10_PositiveQty ==
    /\ \A r \in RestingAll(engine.book) : r.qty > 0
    /\ \A k \in 1..Len(executed) : executed[k].qty > 0
    /\ (Submitted /\ arg.val.qty <= 0) => (engine.book = pre.book /\ ~Traded)

\* C11: the aggregated and the raw view of a side have the same prices, one per
\* non-empty level; the aggregated value of a price is the sum of qty over the
\* raw sequence of that price, and the raw sequence lists the level's orders
\* front to back in order of arrival (two BUY p x q with no asks aggregate to
\* {p: 2q}).
RECURSIVE QtyUpTo(_, _)
QtyUpTo(raw, n) == IF n = 0 THEN 0 ELSE QtyUpTo(raw, n - 1) + raw[n].qty

ViewsAgree(agg, raw, side, s) ==
    /\ agg.tag = "dict"
    /\ raw.tag = "dict"
    /\ DOMAIN agg.val = DOMAIN raw.val
    /\ DOMAIN agg.val = {r.price : r \in RestingOf([bids |-> side, asks |-> EmptyDict], s)}
    /\ \A p \in DOMAIN raw.val :
          /\ Len(raw.val[p]) >= 1
          /\ agg.val[p] = QtyUpTo(raw.val[p], Len(raw.val[p]))
          /\ raw.val[p] = side[p]
          /\ \A i, j \in 1..Len(raw.val[p]) :
                i < j => raw.val[p][i].order_id < raw.val[p][j].order_id

C11_ViewsAgree ==
    /\ ViewsAgree(get_bids(engine.book), get_raw_bids(engine.book), engine.book.bids, "BUY")
    /\ ViewsAgree(get_asks(engine.book), get_raw_asks(engine.book), engine.book.asks, "SELL")
    /\ op = "get_bids" => ret = get_bids(engine.book)
    /\ op = "get_asks" => ret = get_asks(engine.book)
    /\ op = "get_raw_bids" => ret = get_raw_bids(engine.book)
    /\ op = "get_raw_asks" => ret = get_raw_asks(engine.book)

\* get_bids after two BUY orders of qty 2 at one price and no asks: {p: 4}
C11_Witness ==
    /\ op = "get_bids"
    /\ engine.book.asks = EmptyDict
    /\ \E p \in DOMAIN engine.book.bids :
          /\ Len(engine.book.bids[p]) = 2
          /\ engine.book.bids[p][1].qty = 2
          /\ engine.book.bids[p][2].qty = 2
          /\ ret.val[p] = 4

\* C12: when submit_order trades, the taker is not inserted into the book and
\* the only change to the book is that the maker leaves the front of its queue
\* (its level is deleted if that empties it): the taker's side, every other
\* level and every other order of the maker's side keep content and order.
C12_TradeFrame ==
    Traded =>
        LET o == arg.val
            before == Opposing(pre.book, o.side)
            after == Opposing(engine.book, o.side)
        IN /\ Own(engine.book, o.side) = Own(pre.book, o.side)
           /\ o \notin RestingAll(engine.book)
           /\ \E p \in DOMAIN before :
                 /\ before[p][1].order_id = ret.val[1].maker_order_id
                 /\ IF Len(before[p]) = 1
                    THEN DOMAIN after = DOMAIN before \ {p}
                    ELSE /\ DOMAIN after = DOMAIN before
                         /\ <<before[p][1]>> \o after[p] = before[p]
                 /\ \A q \in DOMAIN before \ {p} : after[q] = before[q]

\* the maker had an order queued behind it, and the taker's own side held orders
C12_Witness ==
    /\ Traded
    /\ \E m \in Removed : Len(Opposing(pre.book, arg.val.side)[m.price]) >= 2
    /\ Own(pre.book, arg.val.side) # EmptyDict

\* C13: when submit_order of a BUY or SELL order returns no trade (opposing
\* side empty, no cross, or a cross with another qty), the book is the previous
\* book with the order appended at the tail of the queue of its side and price
\* (created if absent); the opposing side, the other levels of its side and the
\* last trade are unchanged.
NoTrade == Submitted /\ ValidSide(arg.val) /\ ret = List(<<>>)

C13_RestFrame ==
    NoTrade =>
        LET o == arg.val
            before == Own(pre.book, o.side)
            after == Own(engine.book, o.side)
        IN /\ Opposing(engine.book, o.side) = Opposing(pre.book, o.side)
           /\ engine.last_trade = pre.last_trade
           /\ DOMAIN after = DOMAIN before \cup {o.price}
           /\ Len(after[o.price]) >= 1
           /\ after[o.price][Len(after[o.price])] = o
           /\ SubSeq(after[o.price], 1, Len(after[o.price]) - 1) =
                 (IF o.price \in DOMAIN before THEN before[o.price] ELSE <<>>)
           /\ \A q \in DOMAIN before \ {o.price} : after[q] = before[q]

\* the order joins an existing queue, without crossing a non-empty opposing side
C13_Witness ==
    /\ NoTrade
    /\ arg.val.price \in DOMAIN Own(pre.book, arg.val.side)
    /\ Opposing(pre.book, arg.val.side) # EmptyDict
    /\ ~CrossesBest(pre.book, arg.val)

\* C14: with pairwise distinct order ids, every submitted BUY or SELL order is
\* in exactly one condition: resting in the book (once, on one side), taker of
\* exactly one trade, or maker of exactly one trade; so no order trades twice,
\* no traded order rests, and the resting orders number the submitted ones
\* minus twice the trades.
Positions(side) == UNION {{<<p, i>> : i \in 1..Len(side[p])} : p \in DOMAIN side}

RestingCount(book, id) ==
    Cardinality({x \in Positions(book.bids) : book.bids[x[1]][x[2]].order_id = id})
    + Cardinality({x \in Positions(book.asks) : book.asks[x[1]][x[2]].order_id = id})

TakerCount(id) == Cardinality({k \in 1..Len(executed) : executed[k].taker_order_id = id})

MakerCount(id) == Cardinality({k \in 1..Len(executed) : executed[k].maker_order_id = id})

ValidSubmitted == {k \in 1..Len(submitted) : ValidSide(submitted[k])}

C14_Lifecycle ==
    /\ \A k \in ValidSubmitted :
          LET id == submitted[k].order_id IN
          RestingCount(engine.book, id) + TakerCount(id) + MakerCount(id) = 1
    /\ Cardinality(Positions(engine.book.bids)) + Cardinality(Positions(engine.book.asks))
          = Cardinality(ValidSubmitted) - 2 * Len(executed)
    /\ \A r \in RestingAll(engine.book) : \E k \in ValidSubmitted : submitted[k] = r

\* four orders: one trade, and two orders resting on opposite sides
C14_Witness ==
    /\ Cardinality(ValidSubmitted) = 4
    /\ Len(executed) = 1
    /\ engine.book.bids # EmptyDict
    /\ engine.book.asks # EmptyDict

\* C17: placement.  Every order stored in the bids mapping has side BUY, every
\* order stored in the asks mapping has side SELL, each in the queue keyed by
\* its own price; an order of any other side is stored in neither mapping.
Placed(side, s) ==
    \A p \in DOMAIN side : \A i \in 1..Len(side[p]) :
        side[p][i].side = s /\ side[p][i].price = p

C17_Placement ==
    /\ Placed(engine.book.bids, "BUY")
    /\ Placed(engine.book.asks, "SELL")
    /\ \A k \in 1..Len(submitted) :
          ~ValidSide(submitted[k]) => RestingCount(engine.book, submitted[k].order_id) = 0

\* an order of side HOLD was submitted to a book with both sides populated
C17_Witness ==
    /\ Submitted
    /\ ~ValidSide(arg.val)
    /\ Cardinality(DOMAIN engine.book.bids) + Cardinality(DOMAIN engine.book.asks) >= 3

\* C18: every trade pairs a taker and a maker of opposite sides, at a price no
\* worse for the taker than its limit: at most the price of a BUY taker, at
\* least the price of a SELL taker.
C18_TakerLimit ==
    \A k \in 1..Len(executed) :
        LET t == executed[k]
            taker == submitted[t.taker_order_id]
            maker == submitted[t.maker_order_id]
        IN /\ ValidSide(taker)
           /\ ValidSide(maker)
           /\ taker.side # maker.side
           /\ taker.side = "BUY" => t.price <= taker.price
           /\ taker.side = "SELL" => t.price >= taker.price

\* a BUY taker and a SELL taker, each filled at a price strictly better than its limit
C18_Witness ==
    /\ Len(executed) = 2
    /\ \E j, k \in 1..2 :
          /\ submitted[executed[j].taker_order_id].side = "BUY"
          /\ executed[j].price < submitted[executed[j].taker_order_id].price
          /\ submitted[executed[k].taker_order_id].side = "SELL"
          /\ executed[k].price > submitted[executed[k].taker_order_id].price

\* C16: the queries get_best_bid, get_best_ask, top_of_book, last_trade,
\* get_bids, get_asks, get_raw_bids and get_raw_asks are read-only: whenever and
\* however often they are called, both mappings, the order of every queue and
\* the last trade are what they were before the call, so queries between
\* submits do not change the trades produced.
Queries ==
    {"get_best_bid", "get_best_ask", "top_of_book", "last_trade",
     "get_bids", "get_asks", "get_raw_bids", "get_raw_asks"}

C16_QueriesReadOnly ==
    op \in Queries =>
        /\ engine.book.bids = pre.book.bids
        /\ engine.book.asks = pre.book.asks
        /\ engine.last_trade = pre.last_trade

\* get_best_ask on a book that holds asks, after a trade
C16_Witness ==
    /\ op = "get_best_ask"
    /\ pre.book.asks # EmptyDict
    /\ pre.last_trade # None
    /\ ret.tag = "tuple"

\* C15: the timestamp has no influence on matching.  Two runs that submit the
\* same orders with other timestamps (also with O1 queued before O2 and stamped
\* later) produce the same trades and the same book and queue order, the stored
\* timestamps apart: each submit, replayed on the book and the order restamped,
\* returns the same trades and leaves the same book restamped.
Restamps == {"mirror", "zero"}

Restamp(how, t) == IF how = "mirror" THEN MaxOrders + 1 - t ELSE 0

RestampOrder(how, o) == [o EXCEPT !.timestamp = Restamp(how, @)]

RestampSide(how, side) ==
    [p \in DOMAIN side |-> [i \in 1..Len(side[p]) |-> RestampOrder(how, side[p][i])]]

RestampEngine(how, eng) ==
    [book |-> [bids |-> RestampSide(how, eng.book.bids),
               asks |-> RestampSide(how, eng.book.asks)],
     last_trade |-> eng.last_trade]

C15_TimestampBlind ==
    Submitted =>
        \A how \in Restamps :
            LET out == submit_order(RestampEngine(how, pre), RestampOrder(how, arg.val)) IN
            /\ out.ret = ret
            /\ out.last_trade = engine.last_trade
            /\ out.book = RestampEngine(how, engine).book

\* O1, queued before O2 at one level and stamped later than O2, is the maker
C15_Witness ==
    /\ Traded
    /\ \E m \in Removed :
          LET level == Opposing(pre.book, arg.val.side)[m.price] IN
          /\ Len(level) >= 2
          /\ level[1] = m
          /\ level[1].timestamp > level[2].timestamp
          /\ level[1].qty = level[2].qty

====
